---- MODULE Spec2Model ----
(***************************************************************************)
(* Session-state reconciliation of the streaming chat front end:          *)
(* App (frontend/src/App.tsx), ChatMessagesView / AiMessageBubble and     *)
(* YouTubeResults.  The useStream hook is the transport collaborator; its *)
(* inputs to App (update events, the messages list, the loading flag)     *)
(* are modelled as environment actions.                                   *)
(***************************************************************************)
EXTENDS Integers, Sequences, FiniteSets, TLC

(* ---- bounds ---- *)
MaxTimeline == 2
MaxMsgs == 2
MaxTurns == 2
MaxClock == 1
MaxSources == 5

VARIABLES
  processedEventsTimeline,      \* ProcessedEvent[] of the turn being streamed
  historicalActivities,         \* Record<messageId, ProcessedEvent[]>
  youtubeResults,               \* null or {videos, query, timestamp, threadId}
  currentThreadId,              \* "" (0) or the identifier of the last submission
  hasFinalizeEventOccurredRef,  \* ref set by a finalize_answer event
  messages,                     \* thread.messages
  isLoading,                    \* thread.isLoading
  streams,                      \* submissions of this page; their streams may deliver events
  threadSeq,                    \* number of thread identifiers generated by this page
  clock,                        \* the last value read from Date.now()
  isVisible,                    \* state of the mounted YouTubeResults component
  staleEvent,                   \* the last step delivered an event of a submission other than the current one
  submitted,                    \* the call of thread.submit made by the last step, if it made one
  pending,                      \* an update event handed to onUpdateEvent on its own, and whether it was handled
  reloading                     \* window.location.reload() called, page not yet replaced

vars == <<processedEventsTimeline, historicalActivities, youtubeResults,
          currentThreadId, hasFinalizeEventOccurredRef, messages, isLoading,
          streams, threadSeq, clock, isVisible, staleEvent, submitted,
          pending, reloading>>

(* ---- values ---- *)
Null == [null |-> TRUE]
NoThread == 0
NoId == 0
EmptyRecord == [m \in {} |-> <<>>]
NoCall == [messages |-> <<>>, called |-> FALSE]
NoPending == [event |-> [kind |-> "other"], done |-> TRUE]

SP == " "
InputChars == {SP, "q"}
Inputs == {<<>>, <<SP>>, <<"q">>, <<SP, "q", SP>>}

(* String.prototype.trim on a string of InputChars *)
RECURSIVE TrimLeft(_)
TrimLeft(s) ==
  IF s = <<>> THEN s
  ELSE IF Head(s) = SP THEN TrimLeft(Tail(s)) ELSE s

RECURSIVE TrimRight(_)
TrimRight(s) ==
  IF s = <<>> THEN s
  ELSE IF s[Len(s)] = SP THEN TrimRight(SubSeq(s, 1, Len(s) - 1)) ELSE s

(* a test of the input as typed, white space included *)
Trim_Identity(s) == s
Trim(s) == TrimRight(TrimLeft(s))

(* ---- update events delivered by the transport ---- *)
(* An event is a record: kind is the key the event object carries, the other
   fields are the fields of that key's value, absent when the object lacks
   them.  confidence is in hundredths, so that Math.round(confidence * 100)
   is the number itself; videos is youtube_results.videos.length. *)
StreamEvents ==
  { [kind |-> "youtube_action", videos |-> 1, query |-> "q"],
    [kind |-> "finalize_answer"],
    [kind |-> "other"] }

Has(event, field) == field \in DOMAIN event

(* Array.prototype.join(", ") as the list of the pieces of the result *)
RECURSIVE Join(_)
Join(list) ==
  IF list = <<>> THEN <<>>
  ELSE IF Len(list) = 1 THEN list
  ELSE <<Head(list), ", ">> \o Join(Tail(list))

(* Array.prototype.filter(Boolean) on labels: the empty label is falsy *)
RECURSIVE FilterBoolean(_)
FilterBoolean(labels) ==
  IF labels = <<>> THEN <<>>
  ELSE IF Head(labels) = "" THEN FilterBoolean(Tail(labels))
  ELSE <<Head(labels)>> \o FilterBoolean(Tail(labels))

Contains(list, x) == \E i \in 1..Len(list) : list[i] = x

(* [...new Set(labels)]: insertion order, later duplicates dropped *)
RECURSIVE UniqueFrom(_, _)
UniqueFrom(seen, labels) ==
  IF labels = <<>> THEN seen
  ELSE IF Contains(seen, Head(labels)) THEN UniqueFrom(seen, Tail(labels))
  ELSE UniqueFrom(Append(seen, Head(labels)), Tail(labels))

(* labels listed as often as they occur *)
UniqueLabels_NoDedupe(labels) == FilterBoolean(labels)
UniqueLabels(labels) == UniqueFrom(<<>>, FilterBoolean(labels))

(* Array.prototype.slice(0, n) *)
Slice(list, n) == SubSeq(list, 1, IF Len(list) < n THEN Len(list) ELSE n)

ExampleLabelCount == 3

(* the YouTube branch stores the payload: results && results.videos &&
   results.videos.length > 0 *)
HasItems_AnyResults(event) ==
  event.kind = "youtube_action" /\ Has(event, "videos")
HasItems(event) ==
  event.kind = "youtube_action" /\ Has(event, "videos") /\ event.videos > 0

WebResearchData(event) ==
  LET sources == IF Has(event, "sources_gathered") THEN event.sources_gathered ELSE <<>>
      exampleLabels == Join(Slice(UniqueLabels(sources), ExampleLabelCount))
  IN <<"Gathered ", ToString(Len(sources)), " sources. Related to: ">>
       \o (IF exampleLabels # <<>> THEN exampleLabels ELSE <<"N/A">>)
       \o <<".">>

(* a summary without the fallback text *)
ReflectionData_NoFallback(event) ==
  IF Has(event, "is_sufficient") /\ event.is_sufficient
  THEN <<"Search successful, generating final answer.">>
  ELSE <<"Need more information, searching for ">>
         \o (IF Has(event, "follow_up_queries")
             THEN Join(event.follow_up_queries) ELSE <<>>)
ReflectionData(event) ==
  IF Has(event, "is_sufficient") /\ event.is_sufficient
  THEN <<"Search successful, generating final answer.">>
  ELSE LET joined == IF Has(event, "follow_up_queries")
                     THEN Join(event.follow_up_queries) ELSE <<>>
       IN <<"Need more information, searching for ">>
            \o (IF joined # <<>> THEN joined ELSE <<"additional information">>)

(* the ProcessedEvent built by onUpdateEvent, or Null; data is the list of
   the pieces of the text *)
ProcessEvent(event) ==
  CASE event.kind = "classify_intent" ->
         [title |-> "Analyzing Intent",
          data |-> <<"Detected: ",
                     IF Has(event, "intent_type") THEN event.intent_type ELSE "undefined",
                     " (",
                     IF Has(event, "confidence") THEN ToString(event.confidence) ELSE "NaN",
                     "% confidence)">>]
    [] event.kind = "youtube_action" ->
         IF HasItems(event)
         THEN [title |-> "YouTube Search",
               data |-> <<"Found ", ToString(event.videos), " videos for \"",
                          IF Has(event, "query") THEN event.query ELSE "undefined",
                          "\"">>]
         ELSE [title |-> "YouTube Search",
               data |-> <<"No videos found or YouTube not configured">>]
    [] event.kind = "generate_query" ->
         [title |-> "Generating Search Queries",
          data |-> Join(IF Has(event, "query_list") THEN event.query_list ELSE <<>>)]
    [] event.kind = "web_research" ->
         [title |-> "Web Research", data |-> WebResearchData(event)]
    [] event.kind = "reflection" ->
         [title |-> "Reflection", data |-> ReflectionData(event)]
    [] event.kind = "finalize_answer" ->
         [title |-> "Finalizing Answer",
          data |-> <<"Composing and presenting the final answer.">>]
    [] OTHER -> Null

(* stableResults: the payload stamped with Date.now() and currentThreadId *)
StableResults(event, now) ==
  [videos |-> event.videos, timestamp |-> now, threadId |-> currentThreadId]

HasVideos(results) == results # Null /\ results.videos > 0

(* ---- ArchiveStore ---- *)
Record(prev, id, events) ==
  [m \in (DOMAIN prev) \cup {id} |-> IF m = id THEN events ELSE prev[m]]

(* ---- the archival useEffect, run on the state a handler leaves ---- *)
(* an effect that archives as soon as the finalize event is in, loading or not *)
ArchiveGuard_IgnoreLoading(flag, loading, msgs) == flag /\ Len(msgs) > 0
ArchiveGuard(flag, loading, msgs) == flag /\ ~loading /\ Len(msgs) > 0

ArchiveTarget(msgs) ==
  LET lastMessage == msgs[Len(msgs)]
  IN IF lastMessage.type = "ai" /\ lastMessage.id # NoId THEN lastMessage.id ELSE NoId

ArchivalEffect(flag, loading, msgs, timeline) ==
  IF ArchiveGuard(flag, loading, msgs)
  THEN /\ historicalActivities' =
            IF ArchiveTarget(msgs) # NoId
            THEN Record(historicalActivities, ArchiveTarget(msgs), timeline)
            ELSE historicalActivities
       /\ hasFinalizeEventOccurredRef' = FALSE
  ELSE /\ historicalActivities' = historicalActivities
       /\ hasFinalizeEventOccurredRef' = flag

(* ---- SessionView ---- *)
IsLast(msgs, i) == i = Len(msgs)

YoutubeProp(msgs, results, i) == IF IsLast(msgs, i) THEN results ELSE Null

(* a bubble that shows the stored payload whether or not it is the last one *)
ShouldShowYouTube_AnyBubble(msgs, results, i) ==
  /\ msgs[i].type # "human"
  /\ HasVideos(results)

ShouldShowYouTube(msgs, results, i) ==
  /\ msgs[i].type # "human"
  /\ IsLast(msgs, i)
  /\ HasVideos(YoutubeProp(msgs, results, i))

(* index of the bubble that mounts a YouTubeResults component, 0 if none *)
MountPoint(msgs, results) ==
  IF Len(msgs) > 0 /\ ShouldShowYouTube(msgs, results, Len(msgs)) THEN Len(msgs) ELSE 0

YouTubeDisplayed(i) ==
  ShouldShowYouTube(messages, youtubeResults, i) /\ isVisible

HistoricalActivity(i) ==
  IF messages[i].id \in DOMAIN historicalActivities
  THEN [defined |-> TRUE, events |-> historicalActivities[messages[i].id]]
  ELSE [defined |-> FALSE, events |-> <<>>]

(* a bubble that shows the live timeline on every message while loading *)
ActivityForThisBubble_LiveWhenLoading(i) ==
  IF isLoading
  THEN [defined |-> TRUE, events |-> processedEventsTimeline]
  ELSE HistoricalActivity(i)
ActivityForThisBubble(i) ==
  IF IsLast(messages, i) /\ isLoading
  THEN [defined |-> TRUE, events |-> processedEventsTimeline]
  ELSE HistoricalActivity(i)

NoActivity == [defined |-> FALSE, events |-> <<>>]

(* the activity sequence handed to the bubble of message i: a
   HumanMessageBubble takes none *)
BubbleActivity(i) ==
  IF messages[i].type = "human" THEN NoActivity ELSE ActivityForThisBubble(i)

(* the bubble renders an ActivityTimeline for a sequence that has events *)
BubbleShowsTimeline(i) ==
  BubbleActivity(i).defined /\ Len(BubbleActivity(i).events) > 0

IsLiveActivityForThisBubble(i) == IsLast(messages, i) /\ isLoading

(* a placeholder kept for the whole time of loading *)
PlaceholderShown_WhileLoading == isLoading
(* the entry rendered after the messages while the answer has not started *)
PlaceholderShown ==
  /\ isLoading
  /\ Len(messages) = 0 \/ messages[Len(messages)].type = "human"

(* the placeholder renders the ActivityTimeline, or "Processing..." when
   there are no events yet *)
PlaceholderShowsTimeline == PlaceholderShown /\ Len(processedEventsTimeline) > 0

PlaceholderPlace == 0

(* the places of the view where the live timeline is rendered: message
   positions, and PlaceholderPlace for the placeholder *)
LivePlaces ==
  {i \in 1..Len(messages) :
     messages[i].type # "human" /\ BubbleShowsTimeline(i)
       /\ IsLiveActivityForThisBubble(i)}
  \cup (IF PlaceholderShowsTimeline THEN {PlaceholderPlace} ELSE {})

(* a YouTubeResults component starts visible, and is made visible again
   whenever it is given a new results object *)
Remount(newResults) ==
  isVisible' =
    IF newResults \/ youtubeResults' # youtubeResults
       \/ MountPoint(messages', youtubeResults') # MountPoint(messages, youtubeResults)
    THEN TRUE
    ELSE isVisible

(* a submission that always clears the stored payload *)
SubmitYoutubeResults_AlwaysClear(loading, results) == Null

(* handleSubmit's clearing policy for the stored payload *)
SubmitYoutubeResults(loading, results) == IF ~loading THEN Null ELSE results

(* ---- initial state ---- *)
Init ==
  /\ processedEventsTimeline = <<>>
  /\ historicalActivities = EmptyRecord
  /\ youtubeResults = Null
  /\ currentThreadId = NoThread
  /\ hasFinalizeEventOccurredRef = FALSE
  /\ messages = <<>>
  /\ isLoading = FALSE
  /\ streams = {}
  /\ threadSeq = 0
  /\ clock = 0
  /\ isVisible = TRUE
  /\ staleEvent = FALSE
  /\ submitted = NoCall
  /\ pending = NoPending
  /\ reloading = FALSE

(* ---- App handlers ---- *)
(* a handler that marks the turn final on every event it reports *)
FinalizeFlag_AnyProgress(event, flag) ==
  IF ProcessEvent(event) # Null THEN TRUE ELSE flag
(* hasFinalizeEventOccurredRef.current after the handler *)
FinalizeFlag(event, flag) ==
  IF event.kind = "finalize_answer" THEN TRUE ELSE flag

OnUpdateEvent(event, now) ==
  LET processedEvent == ProcessEvent(event)
      store == HasItems(event)
      flag == FinalizeFlag(event, hasFinalizeEventOccurredRef)
      timeline == IF processedEvent # Null
                  THEN Append(processedEventsTimeline, processedEvent)
                  ELSE processedEventsTimeline
  IN /\ processedEventsTimeline' = timeline
     /\ youtubeResults' = IF store THEN StableResults(event, now) ELSE youtubeResults
     /\ clock' = IF store THEN now ELSE clock
     /\ ArchivalEffect(flag, isLoading, messages, timeline)
     /\ UNCHANGED <<currentThreadId, messages, isLoading, streams, threadSeq,
                    reloading>>
     /\ Remount(store)

(* the effort switch of handleSubmit; both numbers start at 0 *)
EffortConfig_HighAsMedium(effort) ==
  CASE effort = "low" -> [initial_search_query_count |-> 1, max_research_loops |-> 1]
    [] effort = "medium" -> [initial_search_query_count |-> 3, max_research_loops |-> 3]
    [] effort = "high" -> [initial_search_query_count |-> 3, max_research_loops |-> 3]
    [] OTHER -> [initial_search_query_count |-> 0, max_research_loops |-> 0]
EffortConfig(effort) ==
  CASE effort = "low" -> [initial_search_query_count |-> 1, max_research_loops |-> 1]
    [] effort = "medium" -> [initial_search_query_count |-> 3, max_research_loops |-> 3]
    [] effort = "high" -> [initial_search_query_count |-> 5, max_research_loops |-> 10]
    [] OTHER -> [initial_search_query_count |-> 0, max_research_loops |-> 0]

Efforts == {"low", "medium", "high"}
Models == {"gemini"}

(* the human message handleSubmit appends: the input as typed; its
   identifier, Date.now().toString(), is one no other message has *)
NewHumanMessage(msgs, submittedInputValue) ==
  [type |-> "human", content |-> submittedInputValue, id |-> 0 - (Len(msgs) + 1)]

(* the argument of thread.submit, kept with the effort handleSubmit was
   called with *)
SubmitCall(msgs, submittedInputValue, effort, model) ==
  [called |-> TRUE,
   messages |-> Append(msgs, NewHumanMessage(msgs, submittedInputValue)),
   initial_search_query_count |-> EffortConfig(effort).initial_search_query_count,
   max_research_loops |-> EffortConfig(effort).max_research_loops,
   effort |-> effort,
   reasoning_model |-> model]

HandleSubmit(submittedInputValue, effort, model) ==
  /\ ~reloading
  /\ IF Trim(submittedInputValue) = <<>>
     THEN UNCHANGED vars
     ELSE /\ threadSeq < MaxTurns
          /\ submitted' = SubmitCall(messages, submittedInputValue, effort, model)
          /\ threadSeq' = threadSeq + 1
          /\ currentThreadId' = threadSeq + 1
          /\ processedEventsTimeline' = <<>>
          /\ youtubeResults' = SubmitYoutubeResults(isLoading, youtubeResults)
          /\ isLoading' = TRUE
          /\ streams' = streams \cup {threadSeq + 1}
          /\ ArchivalEffect(FALSE, TRUE, messages, <<>>)
          /\ staleEvent' = FALSE
          /\ UNCHANGED <<messages, clock, reloading, pending>>
          /\ Remount(FALSE)

HandleCancel ==
  /\ ~reloading
  /\ isLoading' = FALSE
  /\ youtubeResults' = Null
  /\ currentThreadId' = NoThread
  /\ reloading' = TRUE
  /\ ArchivalEffect(hasFinalizeEventOccurredRef, FALSE, messages,
                    processedEventsTimeline)
  /\ staleEvent' = FALSE
  /\ submitted' = NoCall
  /\ UNCHANGED pending
  /\ UNCHANGED <<processedEventsTimeline, messages, streams, threadSeq, clock>>
  /\ Remount(FALSE)

(* the cancel control of the input form, offered while a turn is loading *)
CancelButton == isLoading /\ HandleCancel

(* the reloaded page: a new App with its initial state *)
Reload ==
  /\ reloading
  /\ processedEventsTimeline' = <<>>
  /\ historicalActivities' = EmptyRecord
  /\ youtubeResults' = Null
  /\ currentThreadId' = NoThread
  /\ hasFinalizeEventOccurredRef' = FALSE
  /\ messages' = <<>>
  /\ isLoading' = FALSE
  /\ streams' = {}
  /\ isVisible' = TRUE
  /\ staleEvent' = FALSE
  /\ submitted' = NoCall
  /\ UNCHANGED pending
  /\ threadSeq' = 0
  /\ reloading' = FALSE
  /\ UNCHANGED clock

(* ---- transport collaborator ---- *)
(* the values Date.now() can return when the handler of the event reads it *)
ReadClock(event) ==
  IF HasItems(event)
  THEN clock..MaxClock
  ELSE {clock}

TransportEvent(t, event) ==
  /\ t \in streams
  /\ Len(processedEventsTimeline) < MaxTimeline
  /\ staleEvent' = (t # currentThreadId)
  /\ submitted' = NoCall
  /\ UNCHANGED pending
  /\ \E now \in ReadClock(event) : OnUpdateEvent(event, now)

NewMessage(type, withId) ==
  [type |-> type,
   id |-> IF type = "human" THEN 0 - (Len(messages) + 1)
          ELSE IF withId THEN Len(messages) + 1 ELSE NoId]

(* an assistant message can arrive before its identifier is known; the
   identifiers of the messages before the last one are known *)
IdsKnown(msgs) == \A i \in 1..Len(msgs) : msgs[i].id # NoId

TransportMessage(type, withId) ==
  /\ isLoading
  /\ Len(messages) < MaxMsgs
  /\ IdsKnown(messages)
  /\ messages' = Append(messages, NewMessage(type, withId))
  /\ ArchivalEffect(hasFinalizeEventOccurredRef, isLoading, messages',
                    processedEventsTimeline)
  /\ staleEvent' = FALSE
  /\ submitted' = NoCall
  /\ UNCHANGED pending
  /\ UNCHANGED <<processedEventsTimeline, youtubeResults, currentThreadId,
                 isLoading, streams, threadSeq, clock, reloading>>
  /\ Remount(FALSE)

TransportMessageId ==
  /\ isLoading
  /\ ~IdsKnown(messages)
  /\ messages' = [messages EXCEPT ![Len(messages)].id = Len(messages)]
  /\ ArchivalEffect(hasFinalizeEventOccurredRef, isLoading, messages',
                    processedEventsTimeline)
  /\ staleEvent' = FALSE
  /\ submitted' = NoCall
  /\ UNCHANGED pending
  /\ UNCHANGED <<processedEventsTimeline, youtubeResults, currentThreadId,
                 isLoading, streams, threadSeq, clock, reloading>>
  /\ Remount(FALSE)

TransportFinish ==
  /\ isLoading
  /\ isLoading' = FALSE
  /\ ArchivalEffect(hasFinalizeEventOccurredRef, FALSE, messages,
                    processedEventsTimeline)
  /\ staleEvent' = FALSE
  /\ submitted' = NoCall
  /\ UNCHANGED pending
  /\ UNCHANGED <<processedEventsTimeline, youtubeResults, currentThreadId,
                 messages, streams, threadSeq, clock, reloading>>
  /\ Remount(FALSE)

(* ---- browser ---- *)
ObserverSignal(isIntersecting) ==
  /\ MountPoint(messages, youtubeResults) # 0
  /\ isVisible
  /\ HasVideos(youtubeResults)
  /\ isVisible' = isIntersecting
  /\ staleEvent' = FALSE
  /\ submitted' = NoCall
  /\ UNCHANGED pending
  /\ UNCHANGED <<processedEventsTimeline, historicalActivities, youtubeResults,
                 currentThreadId, hasFinalizeEventOccurredRef, messages,
                 isLoading, streams, threadSeq, clock, reloading>>

Next ==
  \/ \E s \in Inputs, effort \in Efforts, model \in Models :
       HandleSubmit(s, effort, model)
  \/ CancelButton
  \/ Reload
  \/ \E t \in 1..MaxTurns, e \in StreamEvents : TransportEvent(t, e)
  \/ \E type \in {"human", "ai"}, withId \in BOOLEAN : TransportMessage(type, withId)
  \/ TransportMessageId
  \/ TransportFinish
  \/ \E b \in BOOLEAN : ObserverSignal(b)

Spec == Init /\ [][Next]_vars

(* ---- onUpdateEvent on one event of any shape ---- *)
Labels == {"", "a", "b", "c", "d"}

RECURSIVE ListsUpTo(_, _)
ListsUpTo(S, n) ==
  IF n = 0 THEN {<<>>}
  ELSE LET shorter == ListsUpTo(S, n - 1)
       IN shorter \cup {Append(l, x) : l \in shorter, x \in S}

SourceLists == ListsUpTo(Labels, MaxSources)
QueryLists == {<<>>, <<"q1">>, <<"q1", "q2">>}

ClassifierEvents ==
  { [kind |-> "classify_intent"],
    [kind |-> "classify_intent", intent_type |-> "research"],
    [kind |-> "classify_intent", confidence |-> 90],
    [kind |-> "classify_intent", intent_type |-> "research", confidence |-> 90],
    [kind |-> "youtube_action"],
    [kind |-> "generate_query"],
    [kind |-> "web_research"],
    [kind |-> "reflection"],
    [kind |-> "finalize_answer"],
    [kind |-> "other"] }
  \cup { [kind |-> "youtube_action", videos |-> n, query |-> "q"] : n \in 0..2 }
  \cup { [kind |-> "generate_query", query_list |-> l] : l \in QueryLists }
  \cup { [kind |-> "web_research", sources_gathered |-> l] : l \in SourceLists }
  \cup { [kind |-> "reflection", is_sufficient |-> b] : b \in BOOLEAN }
  \cup { [kind |-> "reflection", is_sufficient |-> b, follow_up_queries |-> l] :
           b \in BOOLEAN, l \in QueryLists }

(* a turn in progress, or a turn that ended without a finalize event, with
   one event about to be handed to onUpdateEvent *)
InitClassifier ==
  /\ pending \in {[event |-> e, done |-> FALSE] : e \in ClassifierEvents}
  /\ processedEventsTimeline \in
       {<<>>, <<ProcessEvent([kind |-> "generate_query", query_list |-> <<"q1">>])>>}
  /\ youtubeResults \in {Null, [videos |-> 1, timestamp |-> 0, threadId |-> 1]}
  /\ isLoading \in BOOLEAN
  /\ hasFinalizeEventOccurredRef \in {FALSE, isLoading}
  /\ historicalActivities = EmptyRecord
  /\ currentThreadId = 1
  /\ messages = <<[type |-> "human", id |-> 0 - 1], [type |-> "ai", id |-> 2]>>
  /\ streams = {1}
  /\ threadSeq = 1
  /\ clock = 0
  /\ isVisible = TRUE
  /\ staleEvent = FALSE
  /\ submitted = NoCall
  /\ reloading = FALSE

DeliverPending ==
  /\ ~pending.done
  /\ pending' = [pending EXCEPT !.done = TRUE]
  /\ staleEvent' = FALSE
  /\ UNCHANGED submitted
  /\ \E now \in ReadClock(pending.event) : OnUpdateEvent(pending.event, now)

NextClassifier == DeliverPending

SpecClassifier == InitClassifier /\ [][NextClassifier]_vars

(* ---- step shapes used by the properties ---- *)
DeliverStep == ~pending.done /\ pending'.done
CancelStep == ~reloading /\ reloading'
SubmitStep == currentThreadId' # currentThreadId /\ currentThreadId' # NoThread
StaleEventStep == staleEvent'

AiWithId(i) == messages[i].type = "ai" /\ messages[i].id # NoId

FinalizeProgress == ProcessEvent([kind |-> "finalize_answer"])

(* the step records the entry of message m: adds it or replaces its events *)
RecordedStep(m) ==
  /\ m \in DOMAIN historicalActivities'
  /\ \/ m \notin DOMAIN historicalActivities
     \/ historicalActivities'[m] # historicalActivities[m]

(* the step delivered a finalize event *)
FinalizeDelivered ==
  processedEventsTimeline' = Append(processedEventsTimeline, FinalizeProgress)

(* C1: an archival attempt for a message identifier that already has an
   entry is a no-op: with no cancellation pending, a step that is not the
   delivery of another turn's event (the delivery of a repeated finalize
   event of the current turn included) leaves the event sequence of every
   existing entry unchanged. *)
C1_ArchiveAtMostOnce ==
  [][(~reloading' /\ ~staleEvent') =>
       \A m \in (DOMAIN historicalActivities) \cap (DOMAIN historicalActivities') :
         historicalActivities'[m] = historicalActivities[m]]_vars

(* C2: a cancellation while a turn is loading archives nothing, clears the
   ActivityTimeline buffer, clears the stored auxiliary payload and discards
   the turn identifier. *)
C2_CancelDropsTurn ==
  [][(CancelStep /\ isLoading) =>
       /\ historicalActivities' = historicalActivities
       /\ processedEventsTimeline' = <<>>
       /\ youtubeResults' = Null
       /\ currentThreadId' = NoThread]_vars

(* C3: an event of a turn other than the current one (after a cancellation
   or after a newer submission) appends nothing to the buffer, does not
   update the stored auxiliary payload and does not set the terminal flag. *)
C3_StaleEventIgnored ==
  [][StaleEventStep =>
       /\ processedEventsTimeline' = processedEventsTimeline
       /\ youtubeResults' = youtubeResults
       /\ (hasFinalizeEventOccurredRef' => hasFinalizeEventOccurredRef)]_vars

(* C4: whenever the transport is not loading (and the turn was not
   cancelled), every assistant message with an identifier has an archive
   entry. *)
C4_CompletedIsArchived ==
  (~isLoading /\ ~reloading) =>
    \A i \in 1..Len(messages) :
      AiWithId(i) => messages[i].id \in DOMAIN historicalActivities

(* C5: an archive entry is never mutated or removed by later submissions,
   events, message updates and completions (steps of a session in which no
   cancellation is pending). *)
C5_EntryImmutable ==
  [][(~reloading /\ ~reloading') =>
       \A m \in DOMAIN historicalActivities :
         /\ m \in DOMAIN historicalActivities'
         /\ historicalActivities'[m] = historicalActivities[m]]_vars

(* C6: the auxiliary payload is displayed only on the last transcript entry,
   only if that entry is an assistant message and only if the stored payload
   is non-empty. *)
C6_AuxOnlyOnLastAssistant ==
  \A i \in 1..Len(messages) :
    YouTubeDisplayed(i) =>
      /\ i = Len(messages)
      /\ messages[i].type = "ai"
      /\ youtubeResults # Null
      /\ youtubeResults.videos > 0

(* C6 witness: a transcript of two entries ending with an assistant message
   that displays the stored payload while the first entry displays none. *)
C6_Witness ==
  /\ Len(messages) >= 2
  /\ messages[Len(messages)].type = "ai"
  /\ messages[1].type = "ai"
  /\ HasVideos(youtubeResults)
  /\ YouTubeDisplayed(Len(messages))
  /\ ~YouTubeDisplayed(1)

(* C7: while the stored payload is non-empty, the last assistant message
   displays it, whatever visibility signal the view has received. *)
C7_DisplayIsFunctionOfStore ==
  (Len(messages) > 0 /\ messages[Len(messages)].type = "ai" /\ HasVideos(youtubeResults))
    => YouTubeDisplayed(Len(messages))

(* C8: while the transport reports loading, no step starts a new turn; the
   turn identifier can only be kept or discarded by a cancellation. *)
C8_OneTurnInFlight ==
  [][(isLoading /\ ~reloading) =>
       (currentThreadId' = currentThreadId \/ currentThreadId' = NoThread)]_vars

(* C9: a step that starts a new submission clears the stored auxiliary
   payload if and only if the transport was not loading; otherwise the
   payload is the same after the step. *)
C9_SubmitClearsIffIdle ==
  [][SubmitStep =>
       youtubeResults' = (IF isLoading THEN youtubeResults ELSE Null)]_vars

(* C9 witness: the second submission was made while the first was loading
   and the payload stored during the first is still there. *)
C9_Witness ==
  /\ currentThreadId = 2
  /\ HasVideos(youtubeResults)
  /\ youtubeResults.threadId = 1
  /\ isLoading

(* C10: an assistant message that has an archive entry is shown with exactly
   that entry, in every state. *)
C10_ArchivedActivityShown ==
  \A i \in 1..Len(messages) :
    (AiWithId(i) /\ messages[i].id \in DOMAIN historicalActivities) =>
      ActivityForThisBubble(i) =
        [defined |-> TRUE, events |-> historicalActivities[messages[i].id]]

MissingRequired(event) ==
  \/ event.kind = "classify_intent" /\ ~Has(event, "confidence")
  \/ event.kind = "generate_query" /\ ~Has(event, "query_list")
  \/ event.kind = "youtube_action" /\ ~Has(event, "videos")

(* C11: an event that lacks a field required by its kind (classify_intent
   without confidence, generate_query without query_list, youtube_action
   without youtube_results) is ignored: its delivery leaves the
   ActivityTimeline buffer unchanged. *)
C11_MalformedIgnored ==
  [][(DeliverStep /\ MissingRequired(pending.event)) =>
       processedEventsTimeline' = processedEventsTimeline]_vars

(* C12: the configuration handed to the transport is derived from the effort
   alone: low gives 1 initial query and 1 research loop, medium 3 and 3,
   high 5 and 10, for every submission with one of these efforts. *)
C12_EffortConfig ==
  submitted.called =>
    /\ submitted.effort = "low" =>
         submitted.initial_search_query_count = 1 /\ submitted.max_research_loops = 1
    /\ submitted.effort = "medium" =>
         submitted.initial_search_query_count = 3 /\ submitted.max_research_loops = 3
    /\ submitted.effort = "high" =>
         submitted.initial_search_query_count = 5 /\ submitted.max_research_loops = 10

C12_Witness ==
  /\ submitted.called
  /\ submitted.effort = "high"
  /\ submitted.max_research_loops = 10

(* C13: an archive entry is recorded only when the terminal flag is set (by
   a finalize event delivered since the last submission: before the step or
   by the step itself), the transport is not loading and the last transcript
   message is an assistant message with a known identifier; the entry is
   keyed by that message's identifier. *)
C13_RecordedOnlyWhenComplete ==
  [][\A m \in DOMAIN historicalActivities' :
       RecordedStep(m) =>
         /\ hasFinalizeEventOccurredRef \/ FinalizeDelivered
         /\ ~isLoading'
         /\ messages' # <<>>
         /\ messages'[Len(messages')].type = "ai"
         /\ messages'[Len(messages')].id # NoId
         /\ m = messages'[Len(messages')].id]_vars

C13_Witness ==
  /\ ~isLoading
  /\ ~reloading
  /\ messages # <<>>
  /\ AiWithId(Len(messages))
  /\ messages[Len(messages)].id \in DOMAIN historicalActivities
  /\ FinalizeProgress \in
       {historicalActivities[messages[Len(messages)].id][i] :
          i \in 1..Len(historicalActivities[messages[Len(messages)].id])}

(* C14: immediately after the archival transition the ActivityTimeline
   buffer is empty and the terminal flag is reset. *)
C14_ArchivalClearsBuffer ==
  [][(\E m \in DOMAIN historicalActivities' : RecordedStep(m)) =>
       /\ processedEventsTimeline' = <<>>
       /\ ~hasFinalizeEventOccurredRef']_vars

(* C15: the sequence archived for a turn is the buffer as it stands when the
   entry is recorded, the buffer starts empty at the turn's submission (so
   it holds no event of an earlier turn), and the archived sequence is a
   copy: a later append to the buffer changes no existing entry. *)
C15_ArchiveIsTurnSnapshot ==
  [][/\ \A m \in DOMAIN historicalActivities' :
          RecordedStep(m) => historicalActivities'[m] = processedEventsTimeline'
     /\ SubmitStep => processedEventsTimeline' = <<>>
     /\ (Len(processedEventsTimeline') > Len(processedEventsTimeline) /\ ~reloading') =>
          \A m \in DOMAIN historicalActivities :
            /\ m \in DOMAIN historicalActivities'
            /\ historicalActivities'[m] = historicalActivities[m]]_vars

ZeroResultsProgress ==
  [title |-> "YouTube Search", data |-> <<"No videos found or YouTube not configured">>]

EmptyAuxEvent(event) ==
  /\ event.kind = "youtube_action"
  /\ "videos" \notin DOMAIN event \/ event.videos = 0

(* C16: an auxiliary-media-search event whose result list is empty or absent
   appends one Progress event reporting zero results and leaves the stored
   auxiliary payload as it was; the stored payload changes only on an
   auxiliary-media-search event with at least one item. *)
C16_EmptyAuxReportsZero ==
  [][DeliverStep =>
       /\ EmptyAuxEvent(pending.event) =>
            /\ processedEventsTimeline' =
                 Append(processedEventsTimeline, ZeroResultsProgress)
            /\ youtubeResults' = youtubeResults
       /\ youtubeResults' # youtubeResults =>
            /\ pending.event.kind = "youtube_action"
            /\ "videos" \in DOMAIN pending.event
            /\ pending.event.videos >= 1]_vars

C16_Witness ==
  /\ pending.done
  /\ EmptyAuxEvent(pending.event)
  /\ youtubeResults # Null
  /\ Len(processedEventsTimeline) = 2
  /\ processedEventsTimeline[2] = ZeroResultsProgress

(* C17: for each assistant message the view takes the live timeline when
   the message is the last one and a turn is loading, and the archive entry
   of the message's identifier otherwise; a human message has no activity
   sequence. *)
C17_ActivitySelection ==
  \A i \in 1..Len(messages) :
    IF messages[i].type = "human"
    THEN ~BubbleActivity(i).defined
    ELSE IF i = Len(messages) /\ isLoading
    THEN BubbleActivity(i).defined /\ BubbleActivity(i).events = processedEventsTimeline
    ELSE IF messages[i].id \in DOMAIN historicalActivities
    THEN /\ BubbleActivity(i).defined
         /\ BubbleActivity(i).events = historicalActivities[messages[i].id]
    ELSE ~BubbleActivity(i).defined

(* C17 witness: while the next turn is loading, an earlier assistant message
   with an archive entry that differs from the live timeline, followed by a
   human message. *)
C17_Witness ==
  /\ isLoading
  /\ Len(messages) = 2
  /\ AiWithId(1)
  /\ messages[1].id \in DOMAIN historicalActivities
  /\ historicalActivities[messages[1].id] # processedEventsTimeline
  /\ messages[2].type = "human"

(* C18: a finalize event appends one Progress event titled "Finalizing
   Answer" and sets the terminal flag (which the archival effect consumes in
   the same step when the turn is already complete); an event of any other
   kind neither sets the flag nor causes an entry to be recorded. *)
C18_FinalizeSetsFlag ==
  [][DeliverStep =>
       IF pending.event.kind = "finalize_answer"
       THEN /\ Len(processedEventsTimeline') = Len(processedEventsTimeline) + 1
            /\ SubSeq(processedEventsTimeline', 1, Len(processedEventsTimeline)) =
                 processedEventsTimeline
            /\ processedEventsTimeline'[Len(processedEventsTimeline')].title =
                 "Finalizing Answer"
            /\ \/ hasFinalizeEventOccurredRef'
               \/ \E m \in DOMAIN historicalActivities' : RecordedStep(m)
       ELSE /\ hasFinalizeEventOccurredRef' = hasFinalizeEventOccurredRef
            /\ historicalActivities' = historicalActivities]_vars

(* C18 witness: a finalize event was delivered to a turn whose flag was not
   yet set, and the flag is set. *)
C18_Witness ==
  /\ pending.done
  /\ pending.event.kind = "finalize_answer"
  /\ isLoading
  /\ hasFinalizeEventOccurredRef
  /\ Len(processedEventsTimeline) = 2
  /\ processedEventsTimeline[2].title = "Finalizing Answer"

NonBlank(content) == \E i \in 1..Len(content) : content[i] # SP

(* C19: a submission hands the transport the existing transcript, unchanged
   and in order, followed by one new human message holding the input, and
   it does so only for an input that is not empty after trimming: a call of
   the transport is made only by a step that starts a turn. *)
C19_SubmitAppendsHuman ==
  [][/\ SubmitStep =>
          /\ submitted'.called
          /\ Len(submitted'.messages) = Len(messages) + 1
          /\ SubSeq(submitted'.messages, 1, Len(messages)) = messages
          /\ submitted'.messages[Len(messages) + 1].type = "human"
          /\ NonBlank(submitted'.messages[Len(messages) + 1].content)
     /\ submitted'.called => SubmitStep]_vars

(* C19 witness: a submission made on a transcript of two messages, with the
   input handed over as typed. *)
C19_Witness ==
  /\ submitted.called
  /\ Len(submitted.messages) = 3
  /\ submitted.messages[1].type = "human"
  /\ submitted.messages[2].type = "ai"
  /\ submitted.messages[3].content = <<SP, "q", SP>>

FirstIndex(list, x) ==
  CHOOSE i \in 1..Len(list) : list[i] = x /\ \A j \in 1..(i - 1) : list[j] # x

DistinctLabels(list) == {list[i] : i \in 1..Len(list)} \ {""}

(* shown is the list of the first (at most three) distinct non-empty labels
   of list, in the order of their first occurrence *)
FirstDistinctLabels(shown, list) ==
  /\ \A j \in 1..Len(shown) : shown[j] \in DistinctLabels(list)
  /\ \A j, k \in 1..Len(shown) :
       j < k => FirstIndex(list, shown[j]) < FirstIndex(list, shown[k])
  /\ \A x \in DistinctLabels(list) :
       Contains(shown, x) \/
         \A j \in 1..Len(shown) : FirstIndex(list, shown[j]) < FirstIndex(list, x)

WebResearchSummary(data, list) ==
  LET distinct == Cardinality(DistinctLabels(list))
      k == IF distinct < 3 THEN distinct ELSE 3
  IN /\ Len(data) >= 5
     /\ data[1] = "Gathered "
     /\ data[2] = ToString(Len(list))
     /\ data[3] = " sources. Related to: "
     /\ data[Len(data)] = "."
     /\ IF k = 0
        THEN Len(data) = 5 /\ data[4] = "N/A"
        ELSE /\ Len(data) = 2 * k + 3
             /\ \A j \in 1..(k - 1) : data[3 + 2 * j] = ", "
             /\ FirstDistinctLabels([j \in 1..k |-> data[2 + 2 * j]], list)

(* C20: the summary of a web_research event reports the number of sources
   and the distinct non-empty labels in the order of their first occurrence,
   at most the first three, joined by commas, and "N/A" when there is none;
   the event is appended to the buffer with that summary. *)
C20_WebResearchSummary ==
  [][(DeliverStep /\ pending.event.kind = "web_research") =>
       /\ Len(processedEventsTimeline') = Len(processedEventsTimeline) + 1
       /\ WebResearchSummary(
            processedEventsTimeline'[Len(processedEventsTimeline')].data,
            IF "sources_gathered" \in DOMAIN pending.event
            THEN pending.event.sources_gathered ELSE <<>>)]_vars

(* C20 witness: labels a, a, b, c, d give
   "Gathered 5 sources. Related to: a, b, c." *)
C20_Witness ==
  /\ pending.done
  /\ pending.event = [kind |-> "web_research",
                      sources_gathered |-> <<"a", "a", "b", "c", "d">>]
  /\ processedEventsTimeline # <<>>
  /\ processedEventsTimeline[Len(processedEventsTimeline)].data =
       <<"Gathered ", "5", " sources. Related to: ", "a", ", ", "b", ", ", "c", ".">>

(* data is text, the pieces of list separated by ", ", after the piece lead *)
CommaJoinedAfter(data, lead, list) ==
  /\ Len(data) = 2 * Len(list)
  /\ data[1] = lead
  /\ \A j \in 1..Len(list) : data[2 * j] = list[j]
  /\ \A j \in 1..(Len(list) - 1) : data[2 * j + 1] = ", "

(* C21: the summary of a reflection event is exactly "Search successful,
   generating final answer." when is_sufficient is true; otherwise it lists
   the follow-up queries joined by commas, or says "additional information"
   when the list of follow-up queries is absent or empty. *)
C21_ReflectionSummary ==
  [][(DeliverStep /\ pending.event.kind = "reflection") =>
       /\ Len(processedEventsTimeline') = Len(processedEventsTimeline) + 1
       /\ LET event == pending.event
              data == processedEventsTimeline'[Len(processedEventsTimeline')].data
          IN IF "is_sufficient" \in DOMAIN event /\ event.is_sufficient = TRUE
             THEN data = <<"Search successful, generating final answer.">>
             ELSE IF "follow_up_queries" \in DOMAIN event
                     /\ event.follow_up_queries # <<>>
             THEN CommaJoinedAfter(data, "Need more information, searching for ",
                                   event.follow_up_queries)
             ELSE data = <<"Need more information, searching for ",
                           "additional information">>]_vars

(* C21 witness: an insufficient reflection with two follow-up queries. *)
C21_Witness ==
  /\ pending.done
  /\ pending.event = [kind |-> "reflection", is_sufficient |-> FALSE,
                      follow_up_queries |-> <<"q1", "q2">>]
  /\ processedEventsTimeline # <<>>
  /\ processedEventsTimeline[Len(processedEventsTimeline)].data =
       <<"Need more information, searching for ", "q1", ", ", "q2">>

(* the step handled an auxiliary-media-search event that has items *)
AuxUpdateStep ==
  /\ Len(processedEventsTimeline') = Len(processedEventsTimeline) + 1
  /\ processedEventsTimeline'[Len(processedEventsTimeline')].title = "YouTube Search"
  /\ processedEventsTimeline'[Len(processedEventsTimeline')].data[1] = "Found "

(* C22: every update of the stored auxiliary payload stores the new payload,
   stamped with the identifier of the current turn and with a version
   strictly greater than the stamps issued before it (the stamp of the
   payload it replaces among them). *)
C22_StampStrictlyIncreasing ==
  [][AuxUpdateStep =>
       /\ youtubeResults' # Null
       /\ youtubeResults'.threadId = currentThreadId
       /\ youtubeResults # Null =>
            youtubeResults'.timestamp > youtubeResults.timestamp]_vars

(* the one place the live timeline belongs to: the placeholder when the
   transcript is empty or ends with a human message, the last bubble
   otherwise *)
ExpectedLivePlace ==
  IF Len(messages) = 0 \/ messages[Len(messages)].type = "human"
  THEN PlaceholderPlace
  ELSE Len(messages)

(* C23: in every state where the transport reports loading, the live
   timeline is presented at exactly one place: the last message's bubble
   when that message is an assistant message, the placeholder when the
   transcript is empty or ends with a human message. *)
C23_LiveTimelineAtOnePlace ==
  isLoading => LivePlaces = {ExpectedLivePlace}

(* C23, amended: in every state where the transport reports loading and the
   buffer holds at least one event, the live timeline is presented at
   exactly that one place; while the buffer is empty it is presented
   nowhere. *)
C23_LiveTimelineAtOnePlaceIfAny ==
  isLoading =>
    LivePlaces = (IF processedEventsTimeline = <<>> THEN {} ELSE {ExpectedLivePlace})

(* C23 witness: loading with events in the buffer, an archived assistant
   message followed by the assistant message being answered. *)
C23_Witness ==
  /\ isLoading
  /\ processedEventsTimeline # <<>>
  /\ Len(messages) = 2
  /\ messages[1].type = "ai"
  /\ messages[1].id \in DOMAIN historicalActivities
  /\ messages[2].type = "ai"
  /\ LivePlaces = {2}

====
